---- MODULE Spec2Model ----
(***************************************************************************)
(* Parallel_Discrete_Convolutions: the two programs of the repository,     *)
(*   variant "A" = src/unnamed/part_000  (logical zero padding only)       *)
(*   variant "B" = src/conv2d.c          (serial: explicit padded buffer)  *)
(* Values are integers (exact arithmetic); a float buffer of len elements  *)
(* is a function on 0..len-1.                                              *)
(***************************************************************************)
EXTENDS Integers, Sequences, FiniteSets, TLC

\* ---------------------------------------------------------------- bounds
MaxH == 3
MaxW == 3
MaxK == 3
MaxVal == 2

\* bounds of MainSpec: the -H/-W/-kH/-kW values and the header values of a
\* file range over (0 - NegArgs)..MaxArg
MaxArg == 2
NegArgs == 1

\* bounds of the stepwise specification RunSpec
RunMaxH == 2
RunMaxW == 2
RunMaxK == 2
MaxThreads == 2

VARIABLES
  variant,         \* "A" or "B": which program runs
  H, W, kH, kW,    \* the dimensions in force
  w_padding, h_padding,  \* padding arguments (variant B)
  f, g,            \* feature buffer, kernel buffer
  outputs,         \* serial output buffer
  padded_outputs,  \* parallel output buffer (padded_outputs.arr)
  sdone, pdone,    \* conv2d / parallel_conv2d has returned
  mode,            \* "serial" or "parallel": the call that is running stepwise
  nthreads,        \* size of the OpenMP team
  next_it,         \* first unit of the collapsed loop no worker has claimed
  wk,              \* per worker: pc, current unit it, end of its chunk hi
  s_n, s_k,        \* loop variables n, k of the serial conv2d
  wcount,          \* output index -> number of stores made to it
  pc,              \* main: the stage it is at
  argf,            \* main: kernel_file, feature_file, output_file, parallel_mode
  heap,            \* main: each pointer is "null", "live" or "freed"
  size,            \* main: elements allocated behind each pointer
  called,          \* main: the convolver it has called, or "none"
  null_store,      \* main: a store through a NULL pointer has been made
  out_alloc_failed,\* main: posix_memalign of the output buffer failed
  ret,             \* main: "none" while running, else the value returned
  out_file         \* main: what write_data_to_file left in the -o file

callVars == <<variant, H, W, kH, kW, w_padding, h_padding, f, g, outputs,
              padded_outputs, sdone, pdone>>

runVars == <<mode, nthreads, next_it, wk, s_n, s_k, wcount>>

mainVars == <<pc, argf, heap, size, called, null_store, out_alloc_failed, ret,
              out_file>>

vars == <<callVars, runVars, mainVars>>

\* ------------------------------------------------------------- helpers
Vals == 0..MaxVal

\* An element that was allocated and never stored to.
Indeterminate == 0 - 1

\* A float that is not a number: one of the bit patterns a read outside an
\* allocation can yield.
NaN == 0 - 2

\* Float multiplication and addition: exact on the numbers the model holds,
\* NaN as soon as an operand is NaN (0 * NaN is NaN, not 0). The operands
\* are bound to x so that each is evaluated once.
FMul(a, b) ==
  CHOOSE r \in {IF x[1] = NaN \/ x[2] = NaN THEN NaN ELSE x[1] * x[2] :
                  x \in {<<a, b>>}} : TRUE

FAdd(a, b) ==
  CHOOSE r \in {IF x[1] = NaN \/ x[2] = NaN THEN NaN ELSE x[1] + x[2] :
                  x \in {<<a, b>>}} : TRUE

IDX(row, col, stride) == row * stride + col

\* C's int division by 2 (truncation towards zero) and remainder.
CDiv2(x) == IF x >= 0 THEN x \div 2 ELSE 0 - ((0 - x) \div 2)

CMod2(x) == IF x >= 0 THEN x % 2 ELSE 0 - ((0 - x) % 2)

HalfHeight(kh) == CDiv2(kh)

HalfWidth(kw) == CDiv2(kw)

M_offsetAlwaysOne(kh) == 1

M_offset(kh) == IF CMod2(kh) = 0 THEN 1 ELSE 0

N_offsetNever(kw) == 0

N_offset(kw) == IF CMod2(kw) = 0 THEN 1 ELSE 0

\* The taps <<i, j>> in the order the loops of conv2d visit them: i outer,
\* j inner (part_000 lines 144-145, conv2d.c lines 154-155).
SerialTaps(kh, kw) ==
  LET M == HalfHeight(kh)
      N == HalfWidth(kw)
      RECURSIVE LoopJ(_, _, _)
      LoopJ(i, j, acc) ==
        IF j <= N - N_offset(kw) THEN LoopJ(i, j + 1, Append(acc, <<i, j>>)) ELSE acc
      RECURSIVE LoopI(_, _)
      LoopI(i, acc) ==
        IF i <= M - M_offset(kh) THEN LoopI(i + 1, LoopJ(i, 0 - N, acc)) ELSE acc
  IN LoopI(0 - M, <<>>)

\* The taps in the order the loops of parallel_conv2d visit them: j outer,
\* i inner (part_000 lines 193-194, conv2d.c lines 197-198).
ParallelTaps(kh, kw) ==
  LET M == HalfHeight(kh)
      N == HalfWidth(kw)
      RECURSIVE LoopI(_, _, _)
      LoopI(j, i, acc) ==
        IF i <= M - M_offset(kh) THEN LoopI(j, i + 1, Append(acc, <<i, j>>)) ELSE acc
      RECURSIVE LoopJ(_, _)
      LoopJ(j, acc) ==
        IF j <= N - N_offset(kw) THEN LoopJ(j + 1, LoopI(j, 0 - M, acc)) ELSE acc
  IN LoopJ(0 - N, <<>>)

\* The kernel cell a tap multiplies by: g[IDX(i + M, j + N, kW)].
KernelRow(i, kh) == i + HalfHeight(kh)

KernelCol(j, kw) == j + HalfWidth(kw)

\* A read of buf[idx]: inside the allocation the stored element; outside it
\* the read is undefined behaviour and yields whatever junk holds there.
Load(buf, idx, junk) == IF idx \in DOMAIN buf THEN buf[idx] ELSE junk[idx]

\* A store buf[idx] = v (the output buffers are always stored in range, see
\* the write-count variables of the stepwise specification).
Store(buf, idx, v) == IF idx \in DOMAIN buf THEN [buf EXCEPT ![idx] = v] ELSE buf

\* ---------------------------------------------- variant A: one output cell
\* The bounds test of part_000, as written: the second "col >= 0" stands
\* where a test of row >= 0 would be.
InBoundsA(col, row, h, w) == col >= 0 /\ col < h /\ col >= 0 /\ row < w

TapA(ff, h, w, gg, kh, kw, n, k, i, j, junk) ==
  LET col == n + i
      row == k + j
      f_val == IF InBoundsA(col, row, h, w)
               THEN Load(ff, IDX(col, row, w), junk) ELSE 0
  IN FMul(f_val, gg[IDX(i + HalfHeight(kh), j + HalfWidth(kw), kw)])

\* conv2d, part_000: i outer, j inner.
SerialCellA(ff, h, w, gg, kh, kw, n, k, junk) ==
  LET M == HalfHeight(kh)
      N == HalfWidth(kw)
      RECURSIVE LoopJ(_, _, _)
      LoopJ(i, j, acc) ==
        IF j <= N - N_offset(kw)
        THEN LoopJ(i, j + 1, FAdd(acc, TapA(ff, h, w, gg, kh, kw, n, k, i, j, junk)))
        ELSE acc
      RECURSIVE LoopI(_, _)
      LoopI(i, acc) ==
        IF i <= M - M_offset(kh) THEN LoopI(i + 1, LoopJ(i, 0 - N, acc)) ELSE acc
  IN LoopI(0 - M, 0)

\* parallel_conv2d, part_000: j outer, i inner.
ParallelCellA(ff, h, w, gg, kh, kw, n, k, junk) ==
  LET M == HalfHeight(kh)
      N == HalfWidth(kw)
      RECURSIVE LoopI(_, _, _)
      LoopI(j, i, acc) ==
        IF i <= M - M_offset(kh)
        THEN LoopI(j, i + 1, FAdd(acc, TapA(ff, h, w, gg, kh, kw, n, k, i, j, junk)))
        ELSE acc
      RECURSIVE LoopJ(_, _)
      LoopJ(j, acc) ==
        IF j <= N - N_offset(kw) THEN LoopJ(j + 1, LoopI(j, 0 - M, acc)) ELSE acc
  IN LoopJ(0 - N, 0)

\* The reads of f one call of conv2d / parallel_conv2d of part_000 makes:
\* <<n, k, i, j>> for every cell and tap that passes the bounds test; the
\* element read is f[IDX(n + i, k + j, W)].
FeatureReadsA(h, w, kh, kw) ==
  LET taps == SerialTaps(kh, kw)
  IN {r \in {<<n, k, taps[x][1], taps[x][2]>> :
                n \in 0..(h - 1), k \in 0..(w - 1), x \in 1..Len(taps)} :
        InBoundsA(r[1] + r[3], r[2] + r[4], h, w)}

\* ---------------------------------------------- variant B: one output cell
\* conv2d, conv2d.c: n, k are coordinates of the padded buffer; no bounds test.
SerialCellB(ff, h, w, gg, kh, kw, wp, hp, n, k, junk) ==
  LET M == HalfHeight(kh)
      N == HalfWidth(kw)
      total_width == w + wp * 2
      RECURSIVE LoopJ(_, _, _)
      LoopJ(i, j, acc) ==
        IF j <= N - N_offset(kw)
        THEN LoopJ(i, j + 1,
                   acc + Load(ff, IDX(n + i, k + j, total_width), junk)
                         * gg[IDX(i + M, j + N, kw)])
        ELSE acc
      RECURSIVE LoopI(_, _)
      LoopI(i, acc) ==
        IF i <= M - M_offset(kh) THEN LoopI(i + 1, LoopJ(i, 0 - N, acc)) ELSE acc
  IN LoopI(0 - M, 0)

\* The indices at which one call of conv2d of conv2d.c reads f: every tap of
\* every cell of the true region, with stride total_width and no bounds test.
SerialReadsB(h, w, kh, kw, wp, hp) ==
  LET taps == SerialTaps(kh, kw)
      total_height == h + hp * 2
      total_width == w + wp * 2
  IN {IDX(n + taps[x][1], k + taps[x][2], total_width) :
        n \in hp..(total_height - hp - 1), k \in wp..(total_width - wp - 1),
        x \in 1..Len(taps)}

InBoundsB(col, row, h, w) == col >= 0 /\ col < h /\ row >= 0 /\ row < w

\* parallel_conv2d, conv2d.c: logical zero padding, stride W.
ParallelCellB(ff, h, w, gg, kh, kw, n, k, junk) ==
  LET M == HalfHeight(kh)
      N == HalfWidth(kw)
      Tap(i, j) ==
        LET f_val == IF InBoundsB(n + i, k + j, h, w)
                     THEN Load(ff, IDX(n + i, k + j, w), junk) ELSE 0
        IN f_val * gg[IDX(i + M, j + N, kw)]
      RECURSIVE LoopI(_, _, _)
      LoopI(j, i, acc) ==
        IF i <= M - M_offset(kh) THEN LoopI(j, i + 1, acc + Tap(i, j)) ELSE acc
      RECURSIVE LoopJ(_, _)
      LoopJ(j, acc) ==
        IF j <= N - N_offset(kw) THEN LoopJ(j + 1, LoopI(j, 0 - M, acc)) ELSE acc
  IN LoopJ(0 - N, 0)

\* ------------------------------------------------------- output indices
\* part_000 line 160: output[IDX(n, k, W)].
OutIndexA(n, k, w) == IDX(n, k, w)

OutIndexB_NoOffset(n, k, w, hp, wp) == IDX(n, k, w)

\* conv2d.c line 161: output[IDX(n - h_padding, k - w_padding, W)].
OutIndexB(n, k, w, hp, wp) == IDX(n - hp, k - wp, w)

ParOutIndexTransposed(n, k, w) == IDX(k, n, w)

\* part_000 line 209, conv2d.c line 214: padded_output.arr[IDX(n, k, W)].
ParOutIndex(n, k, w) == IDX(n, k, w)

\* ------------------------------------------------- whole convolution calls
\* conv2d of part_000 (lines 130-164), run to completion on output buffer out.
conv2d_A(ff, h, w, gg, kh, kw, out, junk) ==
  LET RECURSIVE LoopK(_, _, _)
      LoopK(n, k, o) ==
        IF k < w
        THEN LoopK(n, k + 1,
                   Store(o, OutIndexA(n, k, w), SerialCellA(ff, h, w, gg, kh, kw, n, k, junk)))
        ELSE o
      RECURSIVE LoopN(_, _)
      LoopN(n, o) == IF n < h THEN LoopN(n + 1, LoopK(n, 0, o)) ELSE o
  IN LoopN(0, out)

\* parallel_conv2d of part_000 (lines 177-213), run to completion. The units
\* are taken in flattened order; RunSpec below runs them under every
\* interleaving of the workers.
parallel_conv2d_A(ff, h, w, gg, kh, kw, out, junk) ==
  LET RECURSIVE Unit(_, _)
      Unit(it, o) ==
        IF it < h * w
        THEN Unit(it + 1,
                  Store(o, ParOutIndex(it \div w, it % w, w),
                        ParallelCellA(ff, h, w, gg, kh, kw, it \div w, it % w, junk)))
        ELSE o
  IN Unit(0, out)

\* conv2d of conv2d.c (lines 137-165).
conv2d_B(ff, h, w, gg, kh, kw, wp, hp, out, junk) ==
  LET total_height == h + hp * 2
      total_width == w + wp * 2
      RECURSIVE LoopK(_, _, _)
      LoopK(n, k, o) ==
        IF k < total_width - wp
        THEN LoopK(n, k + 1,
                   Store(o, OutIndexB(n, k, w, hp, wp),
                         SerialCellB(ff, h, w, gg, kh, kw, wp, hp, n, k, junk)))
        ELSE o
      RECURSIVE LoopN(_, _)
      LoopN(n, o) == IF n < total_height - hp THEN LoopN(n + 1, LoopK(n, wp, o)) ELSE o
  IN LoopN(hp, out)

\* parallel_conv2d of conv2d.c (lines 178-218).
parallel_conv2d_B(ff, h, w, gg, kh, kw, wp, hp, out, junk) ==
  LET RECURSIVE Unit(_, _)
      Unit(it, o) ==
        IF it < h * w
        THEN Unit(it + 1,
                  Store(o, ParOutIndex(it \div w, it % w, w),
                        ParallelCellB(ff, h, w, gg, kh, kw, it \div w, it % w, junk)))
        ELSE o
  IN Unit(0, out)

\* ------------------------------------------------------------- inputs
Const(len, c) == [x \in 0..(len - 1) |-> c]

UnitAt(len, p) == [x \in 0..(len - 1) |-> IF x = p THEN 1 ELSE 0]

Ramp(len) == [x \in 0..(len - 1) |-> x + 1]

\* The kernel contents tried: every constant buffer, every buffer with a
\* single 1, and the buffer whose elements are all different.
Buffers(len) ==
  {Const(len, c) : c \in Vals} \cup {UnitAt(len, p) : p \in 0..(len - 1)}
    \cup {Ramp(len)}

\* The feature maps tried: every constant map and the map whose elements are
\* all different.
FeatureBuffers(len) == {Const(len, c) : c \in Vals} \cup {Ramp(len)}

\* Number of elements main allocates for the feature map it generates.
FeatureLen(v, h, w, kh, kw) ==
  IF v = "A" THEN w * h
  ELSE (w + HalfWidth(kw) * 2) * (h + HalfHeight(kh) * 2)

\* What a float outside the allocation may hold: a number other than the 0
\* of a padded tap, or no number at all.
JunkVals == {1, NaN}

\* Memory below the feature buffer that part_000 reads when k + j < 0 in
\* row 0: any of these contents in each element, fixed for the call.
JunkBelow(kw) == [((0 - HalfWidth(kw))..(0 - 1)) -> JunkVals]

NoJunk == [x \in {} |-> 0]

\* The stepwise variables when no stepwise call runs.
RunIdle ==
  /\ mode = "none"
  /\ nthreads = 0
  /\ next_it = 0
  /\ wk = <<>>
  /\ s_n = 0
  /\ s_k = 0
  /\ wcount = <<>>

NoFile == <<>>

Ptrs == {"kernel", "feature_map", "outputs", "arr", "padding"}

\* The heap blocks main can hold: the one behind each pointer, and the block
\* kernel / feature_map pointed to before generate_data of conv2d.c stored a
\* new allocation in the pointer.
Blocks == Ptrs \cup {"kernel_lost", "feature_map_lost"}

\* The -o file before write_data_to_file is called: nothing was written.
\* status is the value write_data_to_file returned ("ub" when it used a NULL
\* FILE*), opened says both fopen calls returned a stream, source is the
\* buffer it printed from, header the numbers of its first line, and rows
\* the index of the element printed at each place of each following line.
NoOutput ==
  [status |-> "none", opened |-> FALSE, source |-> "none", header |-> <<>>,
   rows |-> <<>>]

\* The variables of main when main is not the program that runs.
MainIdle ==
  /\ pc = "none"
  /\ argf = <<>>
  /\ heap = <<>>
  /\ size = <<>>
  /\ called = "none"
  /\ null_store = FALSE
  /\ out_alloc_failed = FALSE
  /\ ret = "none"
  /\ out_file = NoOutput

\* ---------------------------------------------- Spec: whole calls on inputs
Init ==
  /\ variant \in {"A", "B"}
  /\ H \in 1..MaxH
  /\ W \in 1..MaxW
  /\ kH \in 1..MaxK
  /\ kW \in 1..MaxK
  /\ w_padding = IF variant = "B" THEN HalfWidth(kW) ELSE 0
  /\ h_padding = IF variant = "B" THEN HalfHeight(kH) ELSE 0
  \* conv2d.c: main has allocated the padded buffer and zeroed it (lines
  \* 500-505) and is about to call generate_data; part_000: the H x W buffer
  \* has been generated
  /\ f \in (IF variant = "B"
            THEN {Const(FeatureLen(variant, H, W, kH, kW), 0)}
            ELSE FeatureBuffers(FeatureLen(variant, H, W, kH, kW)))
  /\ g \in Buffers(kH * kW)
  /\ outputs = Const(W * H, Indeterminate)
  /\ padded_outputs = Const(W * H, IF variant = "A" THEN 0 ELSE Indeterminate)
  /\ sdone = FALSE
  /\ pdone = FALSE
  /\ RunIdle
  /\ pc = (IF variant = "B" THEN "feature" ELSE "call")
  /\ argf = <<>>
  /\ heap = <<>>
  /\ size = <<>>
  /\ called = "none"
  /\ null_store = FALSE
  /\ out_alloc_failed = FALSE
  /\ ret = "none"
  /\ out_file = NoOutput

\* conv2d.c line 508: generate_data(total_height, total_width, &feature_map)
\* allocates total_height * total_width floats and stores a random value in
\* every one of them, the padding rows and columns included.
GenerateFeatureB ==
  /\ variant = "B" /\ pc = "feature"
  /\ f' \in FeatureBuffers((H + h_padding * 2) * (W + w_padding * 2))
  /\ pc' = "call"
  /\ UNCHANGED <<variant, H, W, kH, kW, w_padding, h_padding, g, outputs,
                 padded_outputs, sdone, pdone, runVars, argf, heap, size,
                 called, null_store, out_alloc_failed, ret, out_file>>

SerialA ==
  /\ variant = "A" /\ pc = "call" /\ ~sdone
  /\ \E junk \in JunkBelow(kW) :
       outputs' = conv2d_A(f, H, W, g, kH, kW, outputs, junk)
  /\ sdone' = TRUE
  /\ UNCHANGED <<variant, H, W, kH, kW, w_padding, h_padding, f, g,
                 padded_outputs, pdone, runVars, mainVars>>

ParallelA ==
  /\ variant = "A" /\ pc = "call" /\ ~pdone
  /\ \E junk \in JunkBelow(kW) :
       padded_outputs' = parallel_conv2d_A(f, H, W, g, kH, kW, padded_outputs, junk)
  /\ pdone' = TRUE
  /\ UNCHANGED <<variant, H, W, kH, kW, w_padding, h_padding, f, g,
                 outputs, sdone, runVars, mainVars>>

SerialB ==
  /\ variant = "B" /\ pc = "call" /\ ~sdone
  /\ outputs' = conv2d_B(f, H, W, g, kH, kW, w_padding, h_padding, outputs, NoJunk)
  /\ sdone' = TRUE
  /\ UNCHANGED <<variant, H, W, kH, kW, w_padding, h_padding, f, g,
                 padded_outputs, pdone, runVars, mainVars>>

ParallelB ==
  /\ variant = "B" /\ pc = "call" /\ ~pdone
  /\ padded_outputs' =
       parallel_conv2d_B(f, H, W, g, kH, kW, w_padding, h_padding, padded_outputs, NoJunk)
  /\ pdone' = TRUE
  /\ UNCHANGED <<variant, H, W, kH, kW, w_padding, h_padding, f, g,
                 outputs, sdone, runVars, mainVars>>

Next == GenerateFeatureB \/ SerialA \/ ParallelA \/ SerialB \/ ParallelB

Spec == Init /\ [][Next]_vars

\* ------------------------------------- RunSpec: the calls, store by store
Min(a, b) == IF a < b THEN a ELSE b

\* One more store to output index idx.
Bump(wc, idx) ==
  IF idx \in DOMAIN wc THEN [wc EXCEPT ![idx] = @ + 1] ELSE (idx :> 1) @@ wc

\* The stepwise runs take the buffer whose elements are all different, and
\* two values for each element read below the feature buffer.
RunBuffers(len) == {Ramp(len)}

RunJunk(kw) == [((0 - HalfWidth(kw))..(0 - 1)) -> {0, 1}]

Threads == 1..nthreads

RunInit ==
  /\ variant \in {"A", "B"}
  /\ H \in 1..RunMaxH
  /\ W \in 1..RunMaxW
  /\ kH \in 1..RunMaxK
  /\ kW \in 1..RunMaxK
  /\ w_padding = IF variant = "B" THEN HalfWidth(kW) ELSE 0
  /\ h_padding = IF variant = "B" THEN HalfHeight(kH) ELSE 0
  /\ f \in RunBuffers(FeatureLen(variant, H, W, kH, kW))
  /\ g \in RunBuffers(kH * kW)
  /\ outputs = Const(W * H, Indeterminate)
  /\ padded_outputs = Const(W * H, IF variant = "A" THEN 0 ELSE Indeterminate)
  /\ sdone = FALSE
  /\ pdone = FALSE
  /\ mode \in {"serial", "parallel"}
  /\ nthreads \in 1..MaxThreads
  /\ (mode = "serial") => (nthreads = 1)
  /\ next_it = 0
  /\ wk = [t \in 1..nthreads |-> [pc |-> "claim", it |-> 0, hi |-> 0]]
  /\ s_n = IF variant = "B" THEN h_padding ELSE 0
  /\ s_k = IF variant = "B" THEN w_padding ELSE 0
  /\ wcount = <<>>
  /\ MainIdle

\* Bounds of the serial loops: part_000 lines 141-142, conv2d.c lines 151-152.
SerialFirstN == IF variant = "B" THEN h_padding ELSE 0

SerialEndN == IF variant = "B" THEN (H + h_padding * 2) - h_padding ELSE H

SerialFirstK == IF variant = "B" THEN w_padding ELSE 0

SerialEndK == IF variant = "B" THEN (W + w_padding * 2) - w_padding ELSE W

\* One pass of the body of the serial n, k loops: the taps, then the store.
SerialStep ==
  /\ mode = "serial" /\ ~sdone
  /\ s_n < SerialEndN /\ s_k < SerialEndK
  /\ \E junk \in RunJunk(kW) :
       LET idx == IF variant = "B"
                  THEN OutIndexB(s_n, s_k, W, h_padding, w_padding)
                  ELSE OutIndexA(s_n, s_k, W)
           result == IF variant = "B"
                     THEN SerialCellB(f, H, W, g, kH, kW, w_padding, h_padding,
                                      s_n, s_k, junk)
                     ELSE SerialCellA(f, H, W, g, kH, kW, s_n, s_k, junk)
       IN /\ outputs' = Store(outputs, idx, result)
          /\ wcount' = Bump(wcount, idx)
  /\ IF s_k + 1 < SerialEndK
     THEN s_k' = s_k + 1 /\ s_n' = s_n
     ELSE s_k' = SerialFirstK /\ s_n' = s_n + 1
  /\ UNCHANGED <<variant, H, W, kH, kW, w_padding, h_padding, f, g,
                 padded_outputs, sdone, pdone, mode, nthreads, next_it, wk, mainVars>>

\* The serial loops are over: return 0.
SerialReturn ==
  /\ mode = "serial" /\ ~sdone
  /\ s_n >= SerialEndN
  /\ sdone' = TRUE
  /\ UNCHANGED <<variant, H, W, kH, kW, w_padding, h_padding, f, g, outputs,
                 padded_outputs, pdone, runVars, mainVars>>

ChunkSizeOne(w) == 1

\* schedule(dynamic, W): a chunk is W consecutive units of the collapsed loop.
ChunkSize(w) == w

NextChunkSkipsUnit(lo, w, total) == Min(lo + w + 1, total)

\* First unit after the chunk that starts at unit lo.
NextChunk(lo, w, total) == Min(lo + ChunkSize(w), total)

\* Worker t takes the next unclaimed chunk of the collapse(2) loop.
ParClaim(t) ==
  /\ mode = "parallel" /\ ~pdone
  /\ wk[t].pc = "claim"
  /\ next_it < H * W
  /\ wk' = [wk EXCEPT ![t] = [pc |-> "run", it |-> next_it,
                               hi |-> Min(next_it + ChunkSize(W), H * W)]]
  /\ next_it' = NextChunk(next_it, W, H * W)
  /\ UNCHANGED <<callVars, mode, nthreads, s_n, s_k, wcount, mainVars>>

ParComputeClobbersFeature(t) ==
  /\ mode = "parallel" /\ ~pdone
  /\ wk[t].pc = "run"
  /\ f' = Store(f, wk[t].it, 0)
  /\ wcount' = Bump(wcount, wk[t].it)
  /\ wk' = [wk EXCEPT ![t] =
              IF wk[t].it + 1 < wk[t].hi
              THEN [@ EXCEPT !.it = @ + 1]
              ELSE [@ EXCEPT !.pc = "claim"]]
  /\ UNCHANGED <<variant, H, W, kH, kW, w_padding, h_padding, g, outputs,
                 padded_outputs, sdone, pdone, mode, nthreads, next_it, s_n, s_k, mainVars>>

\* Worker t runs unit it of its chunk: n = it / W, k = it % W; the taps, then
\* the store to padded_output.arr.
ParCompute(t) ==
  /\ mode = "parallel" /\ ~pdone
  /\ wk[t].pc = "run"
  /\ \E junk \in RunJunk(kW) :
       LET n == wk[t].it \div W
           k == wk[t].it % W
           idx == ParOutIndex(n, k, W)
           result == IF variant = "B"
                     THEN ParallelCellB(f, H, W, g, kH, kW, n, k, junk)
                     ELSE ParallelCellA(f, H, W, g, kH, kW, n, k, junk)
       IN /\ padded_outputs' = Store(padded_outputs, idx, result)
          /\ wcount' = Bump(wcount, idx)
  /\ wk' = [wk EXCEPT ![t] =
              IF wk[t].it + 1 < wk[t].hi
              THEN [@ EXCEPT !.it = @ + 1]
              ELSE [@ EXCEPT !.pc = "claim"]]
  /\ UNCHANGED <<variant, H, W, kH, kW, w_padding, h_padding, f, g, outputs,
                 sdone, pdone, mode, nthreads, next_it, s_n, s_k, mainVars>>

\* No chunk is left: worker t waits at the barrier that ends the loop.
ParBarrier(t) ==
  /\ mode = "parallel" /\ ~pdone
  /\ wk[t].pc = "claim"
  /\ next_it >= H * W
  /\ wk' = [wk EXCEPT ![t].pc = "barrier"]
  /\ UNCHANGED <<callVars, mode, nthreads, next_it, s_n, s_k, wcount, mainVars>>

\* Every worker is at the barrier: the parallel region ends, return 0.
ParReturn ==
  /\ mode = "parallel" /\ ~pdone
  /\ \A t \in Threads : wk[t].pc = "barrier"
  /\ pdone' = TRUE
  /\ UNCHANGED <<variant, H, W, kH, kW, w_padding, h_padding, f, g, outputs,
                 padded_outputs, sdone, runVars, mainVars>>

Worker(t) == t \in Threads /\ (ParClaim(t) \/ ParCompute(t) \/ ParBarrier(t))

RunNext ==
  \/ SerialStep
  \/ SerialReturn
  \/ \E t \in Threads : ParClaim(t)
  \/ \E t \in Threads : ParCompute(t)
  \/ \E t \in Threads : ParBarrier(t)
  \/ ParReturn

RunSpec == RunInit /\ [][RunNext]_vars

\* The OpenMP workers are threads of the operating system: each one that can
\* take a step eventually takes it.
FairRunSpec ==
  /\ RunInit
  /\ [][RunNext]_vars
  /\ \A t \in 1..MaxThreads : WF_vars(Worker(t))
  /\ WF_vars(ParReturn)
  /\ WF_vars(SerialStep \/ SerialReturn)

\* ---------------------------------------- MainSpec: main, stage by stage
ArgInts == (0 - NegArgs)..MaxArg

\* A file is its header line <<height, width>>; its rows agree with the header.
Files == {NoFile} \cup (ArgInts \X ArgInts)

Max(a, b) == IF a > b THEN a ELSE b

CacheLine == 64

SizeofFloat == 4

\* posix_memalign(&p, 64, n * sizeof(float)) for an int n: TRUE when it
\* returns 0. A negative n converts to a size no heap can hold. On failure
\* the pointer keeps its value, NULL.
AllocOutcomes(n) == IF n < 0 THEN {FALSE} ELSE {TRUE, FALSE}

\* Elements extract_data stores for a file with header <<h, w>>.
FileElements(hd) == IF hd[1] > 0 /\ hd[2] > 0 THEN hd[1] * hd[2] ELSE 0

\* cache_padding_size of main.
CachePaddingSize(w) == CacheLine - ((w * SizeofFloat) % CacheLine)

MainInit ==
  /\ variant \in {"A", "B"}
  /\ H \in ArgInts /\ W \in ArgInts /\ kH \in ArgInts /\ kW \in ArgInts
  /\ argf \in [kernel_file : Files, feature_file : Files,
                output_file : BOOLEAN, parallel_mode : {0, 1}]
  \* a file that is only written to (its flags ask for generated data) is
  \* taken with one header
  /\ (kH > 0 \/ kW > 0) => argf.kernel_file \in {NoFile, <<0, 0>>}
  /\ (H > 0 \/ W > 0) => argf.feature_file \in {NoFile, <<0, 0>>}
  /\ w_padding = 0 /\ h_padding = 0
  /\ f = <<>> /\ g = <<>> /\ outputs = <<>> /\ padded_outputs = <<>>
  /\ sdone = FALSE /\ pdone = FALSE
  /\ RunIdle
  /\ pc = "kernel"
  /\ heap = [p \in Blocks |-> "null"]
  /\ size = [p \in Blocks |-> 0]
  /\ called = "none"
  /\ null_store = FALSE
  /\ out_alloc_failed = FALSE
  /\ ret = "none"
  /\ out_file = NoOutput

\* The stage made the stores ns through a NULL pointer (undefined behaviour:
\* the process is killed, or goes on) or made none; then main is at nextpc.
AfterStores(ns, nextpc) ==
  /\ null_store' = (null_store \/ ns)
  /\ pc' \in (IF ns THEN {"crashed", nextpc} ELSE {nextpc})

\* As AfterStores, for a stage that may also have stored beyond the end of a
\* buffer it allocated (undefined behaviour too).
AfterStoresAt(ns, beyond, nextpc) ==
  /\ null_store' = (null_store \/ ns)
  /\ pc' \in (IF ns \/ beyond THEN {"crashed", nextpc} ELSE {nextpc})

\* part_000 lines 419-459, conv2d.c lines 438-481: the kernel.
KernelStage ==
  /\ pc = "kernel"
  /\ IF kH > 0 \/ kW > 0
     THEN \* generated: clamp, allocate, generate_data (conv2d.c: which
          \* allocates once more)
          \E ok \in AllocOutcomes(Max(kW, 1) * Max(kH, 1)),
             ok2 \in (IF variant = "B" THEN AllocOutcomes(Max(kW, 1) * Max(kH, 1))
                      ELSE {FALSE}) :
            /\ kH' = Max(kH, 1) /\ kW' = Max(kW, 1)
            /\ heap' = [heap EXCEPT
                          !["kernel"] = IF ok \/ ok2 THEN "live" ELSE "null",
                          !["kernel_lost"] = IF ok /\ ok2 THEN "live" ELSE "null"]
            /\ size' = [size EXCEPT
                          !["kernel"] = IF ok \/ ok2 THEN Max(kW, 1) * Max(kH, 1) ELSE 0,
                          !["kernel_lost"] = IF ok /\ ok2 THEN Max(kW, 1) * Max(kH, 1)
                                             ELSE 0]
            /\ AfterStores(FALSE, "feature")
     ELSE IF argf.kernel_file # NoFile
     THEN \* read from the file: part_000 reads the header and then
          \* allocates, conv2d.c allocates and then reads the header
          \E ok \in AllocOutcomes(IF variant = "A"
                                  THEN argf.kernel_file[2] * argf.kernel_file[1]
                                  ELSE kW * kH) :
            /\ kH' = argf.kernel_file[1] /\ kW' = argf.kernel_file[2]
            /\ heap' = [heap EXCEPT !["kernel"] = IF ok THEN "live" ELSE "null"]
            /\ size' = [size EXCEPT !["kernel"] =
                          IF ~ok THEN 0
                          ELSE IF variant = "A"
                               THEN argf.kernel_file[2] * argf.kernel_file[1]
                               ELSE kW * kH]
            \* extract_data stores the elements of the file; in conv2d.c the
            \* buffer has the kW * kH elements of before the header was read
            /\ AfterStoresAt(~ok /\ FileElements(argf.kernel_file) > 0,
                             ok /\ variant = "B"
                                /\ FileElements(argf.kernel_file) > kW * kH,
                             "feature")
     ELSE /\ UNCHANGED <<kH, kW, heap, size>>
          /\ AfterStores(FALSE, "feature")
  /\ w_padding' = HalfWidth(kW')
  /\ h_padding' = HalfHeight(kH')
  /\ UNCHANGED <<variant, H, W, f, g, outputs, padded_outputs, sdone, pdone,
                 runVars, argf, called, out_alloc_failed, ret, out_file>>

\* part_000 lines 464-512, conv2d.c lines 487-547: the feature map.
FeatureStage ==
  /\ pc = "feature"
  /\ IF H > 0 \/ W > 0
     THEN LET n == IF variant = "A" THEN Max(W, 1) * Max(H, 1)
                   ELSE (Max(W, 1) + w_padding * 2) * (Max(H, 1) + h_padding * 2)
          IN \E ok \in AllocOutcomes(n),
                ok2 \in (IF variant = "B" THEN AllocOutcomes(n) ELSE {FALSE}) :
               /\ H' = Max(H, 1) /\ W' = Max(W, 1)
               /\ heap' = [heap EXCEPT
                             !["feature_map"] = IF ok \/ ok2 THEN "live" ELSE "null",
                             !["feature_map_lost"] = IF ok /\ ok2 THEN "live" ELSE "null"]
               /\ size' = [size EXCEPT
                             !["feature_map"] = IF ok \/ ok2 THEN n ELSE 0,
                             !["feature_map_lost"] = IF ok /\ ok2 THEN n ELSE 0]
               \* conv2d.c zeroes the buffer right after allocating it
               /\ AfterStores(variant = "B" /\ ~ok /\ n > 0, "check")
     ELSE IF argf.feature_file # NoFile
     THEN \E ok \in AllocOutcomes(argf.feature_file[2] * argf.feature_file[1]) :
            /\ H' = argf.feature_file[1] /\ W' = argf.feature_file[2]
            /\ heap' = [heap EXCEPT !["feature_map"] = IF ok THEN "live" ELSE "null"]
            /\ size' = [size EXCEPT !["feature_map"] =
                          IF ok THEN argf.feature_file[2] * argf.feature_file[1] ELSE 0]
            /\ AfterStores(~ok /\ FileElements(argf.feature_file) > 0, "check")
     ELSE IF variant = "B"
     THEN \* conv2d.c allocates W * H elements also when no file is given
          \E ok \in AllocOutcomes(W * H) :
            /\ UNCHANGED <<H, W>>
            /\ heap' = [heap EXCEPT !["feature_map"] = IF ok THEN "live" ELSE "null"]
            /\ size' = [size EXCEPT !["feature_map"] = IF ok THEN W * H ELSE 0]
            /\ AfterStores(FALSE, "check")
     ELSE /\ UNCHANGED <<H, W, heap, size>>
          /\ AfterStores(FALSE, "check")
  /\ UNCHANGED <<variant, kH, kW, w_padding, h_padding, f, g, outputs,
                 padded_outputs, sdone, pdone, runVars, argf, called,
                 out_alloc_failed, ret, out_file>>

\* part_000 lines 523-525, conv2d.c lines 559-562.
CheckInputs ==
  /\ pc = "check"
  /\ IF heap["kernel"] = "null" \/ heap["feature_map"] = "null"
     THEN ret' = "1" /\ pc' = "returned"
     ELSE ret' = ret /\ pc' = "alloc"
  /\ UNCHANGED <<callVars, runVars, argf, heap, size, called, null_store,
                 out_alloc_failed, out_file>>

\* part_000 lines 537-549 and 563-565, conv2d.c lines 574-584 and 600-603:
\* the output buffer of the selected mode.
OutputAlloc ==
  /\ pc = "alloc"
  /\ \E ok \in AllocOutcomes(W * H), okp \in AllocOutcomes(CachePaddingSize(W)) :
       /\ out_alloc_failed' = ~ok
       /\ IF argf.parallel_mode = 0
          THEN \* padded_outputs.padding is a malloc of its own, of
               \* cache_padding_size bytes, or NULL when that is 64
               /\ heap' = [heap EXCEPT
                             !["arr"] = IF ok THEN "live" ELSE "null",
                             !["padding"] = IF CachePaddingSize(W) = CacheLine \/ ~okp
                                            THEN "null" ELSE "live"]
               /\ size' = [size EXCEPT
                             !["arr"] = IF ok THEN W * H ELSE 0,
                             !["padding"] = IF CachePaddingSize(W) = CacheLine \/ ~okp
                                            THEN 0 ELSE CachePaddingSize(W)]
               \* part_000 zeroes padded_outputs.arr right after allocating it
               /\ AfterStores(variant = "A" /\ ~ok /\ W * H > 0, "call")
          ELSE /\ heap' = [heap EXCEPT !["outputs"] = IF ok THEN "live" ELSE "null"]
               /\ size' = [size EXCEPT !["outputs"] = IF ok THEN W * H ELSE 0]
               /\ AfterStores(FALSE, "call")
  /\ UNCHANGED <<callVars, runVars, argf, called, ret, out_file>>

\* The convolver main is about to call reads f outside the elements
\* allocated for feature_map (undefined behaviour).
ReadsOutsideFeature ==
  IF variant = "A"
  THEN \E r \in FeatureReadsA(H, W, kH, kW) :
         IDX(r[1] + r[3], r[2] + r[4], W) \notin 0..(size["feature_map"] - 1)
  ELSE IF argf.parallel_mode # 0
  THEN ~(SerialReadsB(H, W, kH, kW, w_padding, h_padding)
           \subseteq 0..(size["feature_map"] - 1))
  ELSE FALSE

\* part_000 lines 555 and 569, conv2d.c lines 590 and 607: the call. The
\* convolver stores H * W results through the output pointer it is given.
ConvCall ==
  /\ pc = "call"
  /\ called' = IF argf.parallel_mode = 0 THEN "parallel_conv2d" ELSE "conv2d"
  /\ AfterStoresAt(/\ heap[IF argf.parallel_mode = 0 THEN "arr" ELSE "outputs"] = "null"
                   /\ H > 0 /\ W > 0,
                   ReadsOutsideFeature,
                   "write")
  /\ UNCHANGED <<callVars, runVars, argf, heap, size, out_alloc_failed, ret,
                 out_file>>

Release(hp, p) == IF hp[p] = "live" THEN [hp EXCEPT ![p] = "freed"] ELSE hp

\* write_data_to_file (part_000 lines 223-255, conv2d.c lines 228-260), called
\* with the pointers outp and arr, as what it leaves in the file. opened and
\* reopened say whether fopen(filepath, "w") and fopen(filepath, "a")
\* returned a stream; only the first is tested. Each cell is printed from
\* outputs when that pointer is not NULL, else from padded_outputs.arr, else
\* the function returns 1 with the header line written.
write_data_to_file(opened, reopened, outp, arr, h_dimension, w_dimension, hpad, wpad) ==
  LET source == IF outp # "null" THEN "outputs"
                ELSE IF arr # "null" THEN "arr" ELSE "none"
      Line(i) == [x \in 1..Max(w_dimension, 0) |->
                    IDX(i - hpad, (wpad + x - 1) - wpad, w_dimension)]
  IN IF ~opened
     THEN [NoOutput EXCEPT !.status = "1"]
     ELSE IF ~reopened
     THEN [NoOutput EXCEPT !.status = "ub"]
     ELSE IF source = "none" /\ h_dimension > 0 /\ w_dimension > 0
     THEN [status |-> "1", opened |-> TRUE, source |-> "none",
           header |-> <<h_dimension, w_dimension>>, rows |-> <<>>]
     ELSE [status |-> "0", opened |-> TRUE, source |-> source,
           header |-> <<h_dimension, w_dimension>>,
           rows |-> [y \in 1..Max(h_dimension, 0) |-> Line(hpad + y - 1)]]

\* part_000 lines 580-587, conv2d.c lines 620-630: with -o, the call of
\* write_data_to_file(output_file, outputs, padded_outputs, H, W [, 0, 0])
\* and the frees of the output buffers. fprintf on the NULL stream of a
\* failed second fopen is undefined: the process is killed, or goes on.
WriteOutput ==
  /\ pc = "write"
  /\ IF argf.output_file
     THEN \E opened \in BOOLEAN, reopened \in BOOLEAN,
             nextpc \in {"crashed", "cleanup"} :
            /\ reopened => opened
            /\ (nextpc = "crashed") => (opened /\ ~reopened)
            /\ out_file' = write_data_to_file(opened, reopened, heap["outputs"],
                                              heap["arr"], H, W, 0, 0)
            /\ heap' = IF nextpc = "cleanup"
                       THEN Release(Release(Release(heap, "outputs"), "arr"),
                                    "padding")
                       ELSE heap
            /\ pc' = nextpc
     ELSE /\ pc' = "cleanup"
          /\ UNCHANGED <<heap, out_file>>
  /\ UNCHANGED <<callVars, runVars, argf, size, called, null_store,
                 out_alloc_failed, ret>>

\* part_000 lines 590-597, conv2d.c lines 632-641.
Cleanup ==
  /\ pc = "cleanup"
  /\ heap' = Release(Release(heap, "feature_map"), "kernel")
  /\ ret' = "0"
  /\ pc' = "returned"
  /\ UNCHANGED <<callVars, runVars, argf, size, called, null_store,
                 out_alloc_failed, out_file>>

MainNext ==
  \/ KernelStage
  \/ FeatureStage
  \/ CheckInputs
  \/ OutputAlloc
  \/ ConvCall
  \/ WriteOutput
  \/ Cleanup

MainSpec == MainInit /\ [][MainNext]_vars

\* ------------------------------------------------ claims on whole calls
RECURSIVE SumF(_)
SumF(fn) ==
  IF DOMAIN fn = {} THEN 0
  ELSE LET x == CHOOSE y \in DOMAIN fn : TRUE
       IN fn[x] + SumF([y \in (DOMAIN fn) \ {x} |-> fn[y]])

\* The tap offsets the specification gives for a kernel axis of size ks.
TapOffsets(ks) == (0 - (ks \div 2))..((ks \div 2) - (IF ks % 2 = 0 THEN 1 ELSE 0))

\* The specification's boundary rule on the H x W feature map.
BoundaryRead(r, c) ==
  IF 0 <= r /\ r < H /\ 0 <= c /\ c < W THEN f[r * W + c] ELSE 0

ZeroPaddedSum(n, k) ==
  SumF([t \in TapOffsets(kH) \X TapOffsets(kW) |->
          BoundaryRead(n + t[1], k + t[2])
            * g[(t[1] + (kH \div 2)) * kW + (t[2] + (kW \div 2))]])

Cells == (0..(H - 1)) \X (0..(W - 1))

\* C1: conv2d of part_000 stores in output[n*W+k] the zero-padded sum of
\* boundaryRead(n+i, k+j) * g[(i+kH/2)*kW + (j+kW/2)] over the tap offsets,
\* where boundaryRead is 0 outside [0,H) x [0,W), including c < 0.
C1_SerialStoresZeroPaddedSum ==
  (variant = "A" /\ sdone) =>
    \A c \in Cells : outputs[c[1] * W + c[2]] = ZeroPaddedSum(c[1], c[2])

\* Number of taps of cell (n,k) whose source coordinate is inside the map.
ValidTaps(n, k) ==
  Cardinality({t \in TapOffsets(kH) \X TapOffsets(kW) :
                 0 <= n + t[1] /\ n + t[1] < H /\ 0 <= k + t[2] /\ k + t[2] < W})

AllOnesUniformKernel ==
  /\ variant = "A"
  /\ f = Const(H * W, 1)
  /\ \E wt \in Vals : g = Const(kH * kW, wt)

\* C2: on an all-1 feature map and a kernel of equal weights w, every output
\* cell of conv2d and of parallel_conv2d (part_000) is w times the number of
\* in-range taps: 9 / 6 / 4 for centre / edge / corner of 3x3 under a 3x3
\* kernel, and 4 for every cell of 2x2 under a 3x3 kernel.
C2_CountsValidTaps ==
  AllOnesUniformKernel =>
    /\ sdone => \A c \in Cells :
                  outputs[c[1] * W + c[2]] = g[0] * ValidTaps(c[1], c[2])
    /\ pdone => \A c \in Cells :
                  padded_outputs[c[1] * W + c[2]] = g[0] * ValidTaps(c[1], c[2])
    /\ (H = 3 /\ W = 3 /\ kH = 3 /\ kW = 3 /\ sdone) =>
         outputs = [x \in 0..8 |->
                      g[0] * (IF x = 4 THEN 9 ELSE IF x \in {1, 3, 5, 7} THEN 6 ELSE 4)]
    /\ (H = 2 /\ W = 2 /\ kH = 3 /\ kW = 3 /\ sdone) =>
         outputs = [x \in 0..3 |-> g[0] * 4]

\* C3: parallel_conv2d and conv2d of part_000 give the same value in every
\* output cell, for every feature map and kernel.
C3_SerialEqualsParallelA ==
  (variant = "A" /\ sdone /\ pdone) =>
    \A c \in Cells : outputs[c[1] * W + c[2]] = padded_outputs[c[1] * W + c[2]]

\* C4: in conv2d.c, on the feature buffer, dimensions and padding arguments
\* main passes, the serial conv2d and parallel_conv2d give identical outputs.
C4_SerialEqualsParallelB ==
  (variant = "B" /\ sdone /\ pdone) =>
    \A c \in Cells : outputs[c[1] * W + c[2]] = padded_outputs[c[1] * W + c[2]]

\* C11: with a 1 x 1 kernel every output cell (n,k) of conv2d and of
\* parallel_conv2d is f[n,k] * g[0,0], a single tap that is never a boundary
\* tap; with g = [[1]] the output is the feature map, cell for cell.
C11_OneByOneKernelScales ==
  (kH = 1 /\ kW = 1) =>
    /\ sdone => /\ \A c \in Cells :
                      outputs[c[1] * W + c[2]] = f[c[1] * W + c[2]] * g[0]
                /\ (g[0] = 1) => (outputs = f)
    /\ pdone => /\ \A c \in Cells :
                      padded_outputs[c[1] * W + c[2]] = f[c[1] * W + c[2]] * g[0]
                /\ (g[0] = 1) => (padded_outputs = f)

C11_FeatureCopiedByUnitKernel ==
  /\ variant = "A" /\ kH = 1 /\ kW = 1 /\ H >= 2 /\ W >= 2
  /\ g[0] = 1 /\ f = Ramp(H * W)
  /\ sdone /\ pdone /\ outputs = f /\ padded_outputs = f

\* C12: if every kernel element is 0, every output cell of conv2d and of
\* parallel_conv2d is 0, for any feature map and any H, W, kH, kW >= 1.
C12_ZeroKernelZeroOutput ==
  (g = Const(kH * kW, 0)) =>
    /\ sdone => \A c \in Cells : outputs[c[1] * W + c[2]] = 0
    /\ pdone => \A c \in Cells : padded_outputs[c[1] * W + c[2]] = 0

\* Cell (r, c) of the padded buffer lies in the true feature region.
InTrueRegion(r, c) ==
  /\ HalfHeight(kH) <= r /\ r < HalfHeight(kH) + H
  /\ HalfWidth(kW) <= c /\ c < HalfWidth(kW) + W

\* C13: in conv2d.c, when main calls the serial conv2d, every cell of the
\* (H + 2*(kH/2)) x (W + 2*(kW/2)) feature buffer outside the true feature
\* region holds 0, so a tap that falls outside the region contributes zero.
C13_PaddingHoldsZero ==
  (variant = "B" /\ pc = "call") =>
    \A r \in 0..(H + HalfHeight(kH) * 2 - 1), c \in 0..(W + HalfWidth(kW) * 2 - 1) :
      ~InTrueRegion(r, c) => f[IDX(r, c, W + HalfWidth(kW) * 2)] = 0

\* The taps in the sequence taps visit every offset pair and every kernel cell
\* of a kh x kw kernel exactly once, inside the kernel: kh * kw taps whose
\* kernel indices are all of 0..kh*kw-1.
TapsExact(taps, kh, kw) ==
  /\ Len(taps) = kh * kw
  /\ {taps[x][1] : x \in 1..Len(taps)} = TapOffsets(kh)
  /\ {taps[x][2] : x \in 1..Len(taps)} = TapOffsets(kw)
  /\ Cardinality(TapOffsets(kh)) = kh /\ Cardinality(TapOffsets(kw)) = kw
  /\ \A x \in 1..Len(taps) :
       /\ KernelRow(taps[x][1], kh) \in 0..(kh - 1)
       /\ KernelCol(taps[x][2], kw) \in 0..(kw - 1)
  /\ {IDX(KernelRow(taps[x][1], kh), KernelCol(taps[x][2], kw), kw) :
         x \in 1..Len(taps)} = 0..(kh * kw - 1)

\* C15: for every kH, kW >= 1 the tap loops of conv2d and parallel_conv2d
\* run i over exactly the kH offsets [-(kH/2), kH/2 - (kH even ? 1 : 0)] and
\* j over exactly the kW offsets [-(kW/2), kW/2 - (kW even ? 1 : 0)]; the
\* kernel index (i + kH/2, j + kW/2) stays inside the kernel and hits every
\* kernel cell exactly once per output cell. A size of 2 gives {-1, 0}, a
\* size of 4 gives {-2, -1, 0, 1}.
C15_TapOffsetsExact ==
  /\ \A taps \in {SerialTaps(kH, kW), ParallelTaps(kH, kW)} : TapsExact(taps, kH, kW)
  /\ \A st \in {SerialTaps(2, 4)} :
       /\ {st[x][1] : x \in 1..Len(st)} = {0 - 1, 0}
       /\ {st[x][2] : x \in 1..Len(st)} = {0 - 2, 0 - 1, 0, 1}
  /\ \A pt \in {ParallelTaps(4, 2)} :
       /\ {pt[x][1] : x \in 1..Len(pt)} = {0 - 2, 0 - 1, 0, 1}
       /\ {pt[x][2] : x \in 1..Len(pt)} = {0 - 1, 0}

\* An even kernel with its single 1 in cell (0,0): output cell (1,1) is the
\* feature cell at offset (-1,-1).
C15_EvenKernelTapsUpLeft ==
  /\ variant = "A" /\ kH = 2 /\ kW = 2 /\ H >= 2 /\ W >= 2
  /\ g = UnitAt(4, 0) /\ f = Ramp(H * W)
  /\ sdone /\ pdone
  /\ outputs[IDX(1, 1, W)] = f[IDX(0, 0, W)]
  /\ padded_outputs[IDX(1, 1, W)] = f[IDX(0, 0, W)]

\* C19: in part_000 every index at which conv2d and parallel_conv2d read f
\* lies in [0, H*W) and is the index of the cell (n+i, k+j) in its own row:
\* never negative, never in another row, also for taps with k + j < 0.
C19_FeatureReadsInBounds ==
  (variant = "A" /\ (sdone \/ pdone)) =>
    \A r \in FeatureReadsA(H, W, kH, kW) :
      LET idx == IDX(r[1] + r[3], r[2] + r[4], W)
      IN /\ idx \in 0..(H * W - 1)
         /\ idx \div W = r[1] + r[3]
         /\ idx % W = r[2] + r[4]

\* ------------------------------------------------ claims on the stores
OutputIndices == 0..(H * W - 1)

StoredAtMostOnce ==
  /\ DOMAIN wcount \subseteq OutputIndices
  /\ \A idx \in DOMAIN wcount : wcount[idx] <= 1

StoredExactlyOnce ==
  /\ DOMAIN wcount = OutputIndices
  /\ \A idx \in DOMAIN wcount : wcount[idx] = 1

\* C5: in parallel_conv2d the map from unit (n,k) to the stored index is a
\* bijection onto [0, H*W): under every interleaving no output index is
\* stored twice, none outside [0, H*W) is stored, and two workers that are
\* running at the same time are about to store different indices.
C5_WritesDisjoint ==
  (mode = "parallel") =>
    /\ StoredAtMostOnce
    /\ \A c, d \in Cells :
         (ParOutIndex(c[1], c[2], W) = ParOutIndex(d[1], d[2], W)) => (c = d)
    /\ {ParOutIndex(c[1], c[2], W) : c \in Cells} = OutputIndices
    /\ \A t, u \in Threads :
         (t # u /\ wk[t].pc = "run" /\ wk[u].pc = "run") =>
           ParOutIndex(wk[t].it \div W, wk[t].it % W, W)
             # ParOutIndex(wk[u].it \div W, wk[u].it % W, W)

C5_TwoWorkersStoring ==
  /\ mode = "parallel" /\ nthreads >= 2
  /\ wk[1].pc = "run" /\ wk[2].pc = "run"
  /\ Cardinality(DOMAIN wcount) >= 2

\* C6: under fair scheduling parallel_conv2d terminates, for any worker
\* count, and when it has returned every one of the H*W output cells has
\* been stored exactly once.
C6_TerminatesFullyPopulated ==
  /\ [](pdone => StoredExactlyOnce)
  /\ (mode = "parallel") ~> (pdone /\ StoredExactlyOnce)

C6_ReturnedAfterSharedWork ==
  /\ mode = "parallel" /\ pdone /\ nthreads >= 2 /\ H >= 2
  /\ StoredExactlyOnce

\* C9: the serial conv2d of both variants stores exactly the output indices
\* [0, H*W), each exactly once, also when the kernel is larger than the
\* feature map; conv2d.c recovers the index from the padded coordinates.
C9_SerialStoresEachIndexOnce ==
  (mode = "serial") =>
    /\ StoredAtMostOnce
    /\ sdone => StoredExactlyOnce

C9_KernelLargerThanFeature ==
  /\ mode = "serial" /\ variant = "B" /\ sdone
  /\ H < kH /\ W < kW /\ h_padding > 0 /\ w_padding > 0
  /\ StoredExactlyOnce

\* C10: conv2d and parallel_conv2d never change an element of the feature
\* buffer f or of the kernel buffer g, in any step of any interleaving.
C10_InputsNeverWritten == [][f' = f /\ g' = g]_vars

C10_StoresMadeMidCall ==
  /\ variant = "A" /\ mode = "parallel" /\ ~pdone
  /\ \E t \in Threads : wk[t].pc = "run"
  /\ Cardinality(DOMAIN wcount) >= 3

\* The row a running worker holds: its chunk is units [hi - W, hi).
RowOf(t) == (wk[t].hi \div W) - 1

\* Worker t is running a chunk that is exactly the W units of one row.
HoldsOneRow(t) ==
  /\ wk[t].hi % W = 0
  /\ wk[t].hi - W <= wk[t].it /\ wk[t].it < wk[t].hi
  /\ wk[t].it \div W = RowOf(t)
  /\ 0 <= RowOf(t) /\ RowOf(t) < H
  /\ wk[t].hi <= next_it

\* A step that claims: one worker at "claim" takes the W units of the first
\* unclaimed row, and that row is then claimed.
ClaimsNextRow ==
  \E t \in Threads :
    /\ wk[t].pc = "claim"
    /\ wk'[t] = [pc |-> "run", it |-> next_it, hi |-> next_it + W]
    /\ next_it' = next_it + W
    /\ \A u \in Threads \ {t} : wk'[u] = wk[u]

\* C14: in parallel_conv2d (collapse(2), schedule(dynamic, W)) every chunk
\* handed out is exactly the W units (n,0)..(n,W-1) of one row n, each row is
\* claimed by exactly one worker, a worker that has finished its chunk claims
\* the next unclaimed row, and under fairness every row of [0,H) is
\* eventually claimed.
C14_ChunkIsOneRow ==
  /\ []((mode = "parallel") =>
          /\ next_it % W = 0 /\ next_it <= H * W
          /\ \A t \in Threads : (wk[t].pc = "run") => HoldsOneRow(t)
          /\ \A t, u \in Threads :
               (t # u /\ wk[t].pc = "run" /\ wk[u].pc = "run") => RowOf(t) # RowOf(u))
  /\ [][(next_it' # next_it) => ClaimsNextRow]_vars
  /\ \A n \in 0..(RunMaxH - 1) :
       (mode = "parallel" /\ n < H) ~> (next_it >= (n + 1) * W)

C14_WorkerTookNextRow ==
  /\ mode = "parallel" /\ nthreads >= 2 /\ H >= 2 /\ W >= 2
  /\ wk[2].pc = "claim"
  /\ wk[1].pc = "run" /\ RowOf(1) = 1 /\ wk[1].it = W
  /\ DOMAIN wcount = 0..(W - 1)

\* ------------------------------------------------------ claims on main
\* Bytes of tail padding main attaches: cache_padding_size, none when it is 64.
PaddingBytes(w) == IF CachePaddingSize(w) = CacheLine THEN 0 ELSE CachePaddingSize(w)

\* C16: in parallel mode the tail padding rounds the output buffer's byte
\* length up to the next multiple of the 64-byte cache line: for H, W >= 1,
\* (W*H*4 + padding bytes) mod 64 = 0 with 0 <= padding bytes < 64. (Stated
\* after the output buffer is allocated, on the runs whose dimensions are all
\* >= 1.)
C16_PaddingRoundsToCacheLine ==
  (/\ pc \in {"call", "write", "cleanup"}
   /\ argf.parallel_mode = 0
   /\ H >= 1 /\ W >= 1 /\ kH >= 1 /\ kW >= 1) =>
    /\ 0 <= PaddingBytes(W) /\ PaddingBytes(W) < CacheLine
    /\ (heap["padding"] # "null") => (size["padding"] = PaddingBytes(W))
    /\ (W * H * SizeofFloat + PaddingBytes(W)) % CacheLine = 0

\* C7: if posix_memalign of the output buffer fails, main ends with an error:
\* it never calls conv2d / parallel_conv2d, never stores through the NULL
\* output pointer, and does not return 0. (Stated on the runs whose
\* dimensions are all >= 1, so that a violation owes nothing to C8.)
C7_OutputAllocFailureIsFatal ==
  (out_alloc_failed /\ H >= 1 /\ W >= 1 /\ kH >= 1 /\ kW >= 1) =>
    (called = "none" /\ ~null_store /\ ret # "0")

\* C8: main never calls conv2d or parallel_conv2d with H, W, kH or kW <= 0,
\* and holds no buffer allocated for such dimensions.
C8_DimensionsAtLeastOne ==
  /\ (called # "none") => (H >= 1 /\ W >= 1 /\ kH >= 1 /\ kW >= 1)
  /\ (pc \notin {"kernel"} /\ heap["kernel"] = "live") => (kH >= 1 /\ kW >= 1)
  /\ (pc \notin {"kernel", "feature"} /\ heap["feature_map"] = "live")
       => (H >= 1 /\ W >= 1)

\* Elements of f the convolver main calls indexes with its stride: the serial
\* conv2d of conv2d.c walks the padded buffer, every other convolver H x W.
IndexedFeatureLen ==
  IF variant = "B" /\ argf.parallel_mode # 0
  THEN (H + h_padding * 2) * (W + w_padding * 2)
  ELSE H * W

\* C18: when main reaches the convolution call, the kernel buffer holds
\* exactly kH*kW elements and the feature buffer exactly the elements the
\* called convolver indexes with its stride, for the kH, kW, H, W in force; a
\* kernel loaded with -g is allocated with the dimensions of the file's
\* header. (Stated on the runs whose dimensions are all >= 1.)
C18_BuffersMatchDimensions ==
  (pc = "call" /\ H >= 1 /\ W >= 1 /\ kH >= 1 /\ kW >= 1) =>
    /\ size["kernel"] = kH * kW
    /\ size["feature_map"] = IndexedFeatureLen

\* C20: in conv2d.c every index at which the serial conv2d reads f lies
\* inside the buffer main allocated for the feature map, when the map is
\* generated (padded buffer) and when it is loaded from a file (H*W
\* elements), for every kernel size. (Stated on the runs whose dimensions
\* are all >= 1, whose kernel buffer has kH*kW elements and whose output
\* buffer was allocated, so that a violation owes nothing to C7, C8 or C18.)
C20_SerialReadsInsideBuffer ==
  (/\ variant = "B" /\ pc = "call" /\ argf.parallel_mode # 0
   /\ H >= 1 /\ W >= 1 /\ kH >= 1 /\ kW >= 1
   /\ size["kernel"] = kH * kW /\ heap["outputs"] = "live") =>
    SerialReadsB(H, W, kH, kW, w_padding, h_padding)
      \subseteq 0..(size["feature_map"] - 1)

\* C17: when main returns, on every exit path (with or without -o, serial or
\* parallel, and on the early return for a missing kernel or feature map),
\* every buffer main allocated has been released exactly once: no block is
\* still allocated. (Stated on the runs in which every buffer has dimensions
\* >= 1, no output allocation failed and no store went through NULL, so that
\* a violation owes nothing to C7 or C8.)
C17_AllBuffersReleased ==
  (pc = "returned" /\ C8_DimensionsAtLeastOne /\ ~out_alloc_failed /\ ~null_store) =>
    \A b \in Blocks : heap[b] # "live"

\* The index at which the convolver main called stores the result for cell
\* (n, k) of the H x W feature map: parallel_conv2d at IDX(n, k, W), conv2d
\* of part_000 too, conv2d of conv2d.c (which walks the cell as
\* (n + h_padding, k + w_padding)) at IDX(n, k, W) after subtracting the
\* padding again.
ConvolverOutIndex(n, k) ==
  IF called = "parallel_conv2d" THEN ParOutIndex(n, k, W)
  ELSE IF variant = "A" THEN OutIndexA(n, k, W)
  ELSE OutIndexB(n + h_padding, k + w_padding, W, h_padding, w_padding)

\* The buffer main passed to the convolver it called.
ConvolverBuffer == IF called = "parallel_conv2d" THEN "arr" ELSE "outputs"

\* C21: in main, after the convolution stage exactly one of outputs and
\* padded_outputs.arr is non-NULL: padded_outputs.arr if and only if -p was
\* given, and then parallel_conv2d, not conv2d, was called. A file that
\* write_data_to_file could open holds the buffer the selected convolver
\* populated: a header line with the feature map's H and W, then H rows of
\* W values, the value at row y, column x being the cell the convolver
\* stored for (y, x).
C21_SelectedBufferWrittenOut ==
  /\ (pc = "write") =>
       /\ (heap["outputs"] # "null") # (heap["arr"] # "null")
       /\ (heap["arr"] # "null") <=> (argf.parallel_mode = 0)
       /\ called = (IF argf.parallel_mode = 0 THEN "parallel_conv2d" ELSE "conv2d")
  /\ out_file.opened =>
       /\ out_file.status = "0"
       /\ out_file.source = ConvolverBuffer
       /\ out_file.header = <<H, W>>
       /\ Len(out_file.rows) = H
       /\ \A y \in 1..Len(out_file.rows) :
            /\ Len(out_file.rows[y]) = W
            /\ \A x \in 1..Len(out_file.rows[y]) :
                 out_file.rows[y][x] = ConvolverOutIndex(y - 1, x - 1)

====
